---- MODULE Spec2Model ----
(***************************************************************************)
(* Model of the barcode acquisition core of book-barcode-scanner:          *)
(* the BarcodeScanner scan session (ZXing and QuaggaJS variants), the      *)
(* decode callbacks it routes, and the ISBN codec the callbacks use.       *)
(***************************************************************************)
EXTENDS Integers, Sequences, FiniteSets, TLC

(***************************************************************************)
(* Bounds                                                                  *)
(***************************************************************************)
\* Number of startScanning invocations explored on one session object.
MaxStarts == 2

\* Number of character edits applied to a text of the unit tests.
MaxEdits == 1

\* Number of book lookups the application starts.
MaxLookups == 2

(***************************************************************************)
(* Identifier codec.  A text is a sequence of one-character strings.       *)
(***************************************************************************)
Null == <<"null">>

Digits == {"0", "1", "2", "3", "4", "5", "6", "7", "8", "9"}

NaN == -1

parseInt(c) ==
    CASE c = "0" -> 0 [] c = "1" -> 1 [] c = "2" -> 2 [] c = "3" -> 3
      [] c = "4" -> 4 [] c = "5" -> 5 [] c = "6" -> 6 [] c = "7" -> 7
      [] c = "8" -> 8 [] c = "9" -> 9 [] OTHER -> NaN

\* The character class [-\s] of text.replace(/[-\s]/g, '').
IsSeparator(c) == c \in {"-", " ", "\t", "\n"}

NotSeparator(c) == ~IsSeparator(c)

AllDigits(s) == \A i \in 1..Len(s) : s[i] \in Digits

\* /^97[89]\d{10}$/
MatchesISBN13(s) ==
    /\ Len(s) = 13
    /\ s[1] = "9" /\ s[2] = "7" /\ s[3] \in {"8", "9"}
    /\ AllDigits(s)

\* /^\d{9}[\dX]$/
MatchesISBN10(s) ==
    /\ Len(s) = 10
    /\ AllDigits(SubSeq(s, 1, 9))
    /\ s[10] \in Digits \cup {"X"}

\* /^\d{13}$/ and startsWith('978') or startsWith('979')
MatchesEAN13(s) ==
    /\ Len(s) = 13
    /\ AllDigits(s)
    /\ \/ SubSeq(s, 1, 3) = <<"9", "7", "8">>
       \/ SubSeq(s, 1, 3) = <<"9", "7", "9">>

RECURSIVE WeightedSum13(_, _)
\* The loop "for (i = 0; i < 12; i++) sum += (i % 2 === 0) ? digit : digit * 3",
\* over the 0-based positions 0..n-1 of s.
WeightedSum13(s, n) ==
    IF n = 0 THEN 0
    ELSE WeightedSum13(s, n - 1)
           + (IF (n - 1) % 2 = 0 THEN parseInt(s[n]) ELSE parseInt(s[n]) * 3)

DigitChar(d) == CHOOSE c \in Digits : parseInt(c) = d

RECURSIVE PlainSum(_, _)
\* The sum of the first n digits of s, every digit with weight 1.
PlainSum(s, n) == IF n = 0 THEN 0 ELSE PlainSum(s, n - 1) + parseInt(s[n])

\* Mutant of convertISBN10to13: the check digit is computed from the
\* unweighted digit sum.
convertISBN10to13_unweighted(isbn10) ==
    LET isbn10_digits == SubSeq(isbn10, 1, 9)
        isbn13_prefix == <<"9", "7", "8">> \o isbn10_digits
        sum           == PlainSum(isbn13_prefix, 12)
        checkDigit    == (10 - (sum % 10)) % 10
    IN  isbn13_prefix \o <<DigitChar(checkDigit)>>

convertISBN10to13(isbn10) ==
    LET isbn10_digits == SubSeq(isbn10, 1, 9)
        isbn13_prefix == <<"9", "7", "8">> \o isbn10_digits
        sum           == WeightedSum13(isbn13_prefix, 12)
        checkDigit    == (10 - (sum % 10)) % 10
    IN  isbn13_prefix \o <<DigitChar(checkDigit)>>

\* Mutant of extractISBN: a 13-digit identifier is returned without its
\* three-digit prefix.
extractISBN_dropsPrefix(text) ==
    LET cleaned == SelectSeq(text, NotSeparator)
    IN  IF MatchesISBN13(cleaned) THEN SubSeq(cleaned, 4, 13)
        ELSE IF MatchesISBN10(cleaned) THEN convertISBN10to13(cleaned)
        ELSE IF MatchesEAN13(cleaned) THEN cleaned
        ELSE Null

\* Mutant of extractISBN: a 13-digit identifier is returned as it was
\* written, separators included.
extractISBN_keepsSeparators(text) ==
    LET cleaned == SelectSeq(text, NotSeparator)
    IN  IF MatchesISBN13(cleaned) THEN text
        ELSE IF MatchesISBN10(cleaned) THEN convertISBN10to13(cleaned)
        ELSE IF MatchesEAN13(cleaned) THEN text
        ELSE Null

extractISBN(text) ==
    LET cleaned == SelectSeq(text, NotSeparator)
    IN  IF MatchesISBN13(cleaned) THEN cleaned
        ELSE IF MatchesISBN10(cleaned) THEN convertISBN10to13(cleaned)
        ELSE IF MatchesEAN13(cleaned) THEN cleaned
        ELSE Null

\* /^\d{13}$/
MatchesDigits13(s) == Len(s) = 13 /\ AllDigits(s)

\* Mutant of validateISBN13: the check digit is compared modulo 5.
validateISBN13_modulo5(isbn13) ==
    IF ~MatchesDigits13(isbn13) THEN FALSE
    ELSE LET sum        == WeightedSum13(isbn13, 12)
             checkDigit == (10 - (sum % 10)) % 10
         IN  checkDigit % 5 = parseInt(isbn13[13]) % 5

validateISBN13(isbn13) ==
    IF ~MatchesDigits13(isbn13) THEN FALSE
    ELSE LET sum        == WeightedSum13(isbn13, 12)
             checkDigit == (10 - (sum % 10)) % 10
         IN  checkDigit = parseInt(isbn13[13])

RECURSIVE WeightedSum10(_, _)
\* The loop "for (i = 0; i < 9; i++) sum += parseInt(isbn10[i]) * (10 - i)",
\* over the 0-based positions 0..n-1 of s.
WeightedSum10(s, n) ==
    IF n = 0 THEN 0
    ELSE WeightedSum10(s, n - 1) + parseInt(s[n]) * (10 - (n - 1))

\* Mutant of validateISBN10: a final X is accepted whatever the checksum.
validateISBN10_anyX(isbn10) ==
    IF ~MatchesISBN10(isbn10) THEN FALSE
    ELSE LET sum        == WeightedSum10(isbn10, 9)
             remainder  == sum % 11
             checkDigit == IF remainder = 0 THEN 0 ELSE 11 - remainder
             lastChar   == isbn10[10]
         IN  \/ lastChar = "X"
             \/ (checkDigit < 10 /\ parseInt(lastChar) = checkDigit)

validateISBN10(isbn10) ==
    IF ~MatchesISBN10(isbn10) THEN FALSE
    ELSE LET sum        == WeightedSum10(isbn10, 9)
             remainder  == sum % 11
             checkDigit == IF remainder = 0 THEN 0 ELSE 11 - remainder
             lastChar   == isbn10[10]
         IN  \/ (checkDigit = 10 /\ lastChar = "X")
             \/ (checkDigit < 10 /\ parseInt(lastChar) = checkDigit)


\* BookAPI.convertISBN10to13, the copy of the conversion in the BookAPI class.
BookAPI_convertISBN10to13(isbn10) ==
    LET isbn10_digits == SubSeq(isbn10, 1, 9)
        isbn13_prefix == <<"9", "7", "8">> \o isbn10_digits
        sum           == WeightedSum13(isbn13_prefix, 12)
        checkDigit    == (10 - (sum % 10)) % 10
    IN  isbn13_prefix \o <<DigitChar(checkDigit)>>

\* BookAPI.normalizeISBN
normalizeISBN(isbn) ==
    LET cleaned == SelectSeq(isbn, NotSeparator)
    IN  IF MatchesISBN13(cleaned) THEN cleaned
        ELSE IF MatchesISBN10(cleaned) THEN BookAPI_convertISBN10to13(cleaned)
        ELSE cleaned

\* The codec applied to one text: what extractISBN, convertISBN10to13 (on a
\* text of ISBN-10 shape), validateISBN13, validateISBN10 and
\* BookAPI.normalizeISBN return for it.
Codec(text, edits) ==
    [text    |-> text,
     edits   |-> edits,
     isbn    |-> extractISBN(text),
     isbn13  |-> IF MatchesISBN10(text) THEN convertISBN10to13(text) ELSE Null,
     valid13 |-> validateISBN13(text),
     valid10 |-> validateISBN10(text),
     normalized |-> normalizeISBN(text)]

(***************************************************************************)
(* Inputs of the decode callbacks.                                         *)
(***************************************************************************)
\* "978-4-123-45678-9"
TextISBN13 ==
    <<"9", "7", "8", "-", "4", "-", "1", "2", "3", "-",
      "4", "5", "6", "7", "8", "-", "9">>

\* "4123456789"
TextISBN10 == <<"4", "1", "2", "3", "4", "5", "6", "7", "8", "9">>

\* "980123456789": 980 is not a bookland prefix
TextOther == <<"9", "8", "0", "1", "2", "3", "4", "5", "6", "7", "8", "9">>

DecodedTexts == {TextISBN13, TextISBN10, TextOther}

\* What a decode callback receives as its result: a decoded text or nothing.
Results == DecodedTexts \cup {Null}

NoError == [present |-> FALSE, name |-> ""]

\* What a decode callback receives as its error: nothing, the engine's
\* no-symbol-found signal, another engine error, or an error without a name.
Errors == {NoError,
           [present |-> TRUE, name |-> "NotFoundException"],
           [present |-> TRUE, name |-> "ChecksumException"],
           [present |-> TRUE, name |-> ""]}

\* The continuous-decode callback is called with a result or with an error,
\* never with both.
DecodeEvents ==
    {<<result, NoError>> : result \in DecodedTexts}
        \cup {<<Null, error>> : error \in Errors \ {NoError}}

(***************************************************************************)
(* Scan session state.                                                     *)
(***************************************************************************)
VARIABLES
    variant,        \* which BarcodeScanner class the session is: "zxing" | "quagga"
    isScanning,     \* this.isScanning
    codeReader,     \* this.codeReader: 0 (null) or the reader instance it holds
    stream,         \* this.stream: 0 (null) or a stream
    onScanSuccess,  \* this.onScanSuccess is set (not null)
    onScanError,    \* this.onScanError is set (not null)
    srcObject,      \* videoElement.srcObject: 0 (null) or the stream attached
    calls,          \* the startScanning invocations made so far, in order
    readers,        \* the ZXing.BrowserMultiFormatReader instances created
    quagga,         \* the Quagga engine singleton
    live,           \* the streams whose tracks have not been stopped
    stoppedUpTo,    \* number of startScanning invocations made before the last stopScanning returned
    stale,          \* the readers and detection handlers attached before a stopScanning returned
    last,           \* the operation that ran in the last step
    delivered,      \* the callbacks invoked by the last step, in order
    image,          \* the scanImageFile invocation in progress and its promise
    codec,          \* the text handed to the identifier codec and what it returned
    api,            \* the BookAPI call in progress and what it has done so far
    app             \* the BookBarcodeApp: its list, its buttons, its pending lookups

vars == <<variant, isScanning, codeReader, stream, onScanSuccess, onScanError,
          srcObject, calls, readers, quagga, live, stoppedUpTo, stale, last, delivered,
          image, codec, api, app>>

CallIds == 1..MaxStarts

\* A reader exists once the startScanning invocation of the same number has
\* created it; a stream is numbered after the invocation or reader that opened it.
NewReader == [phase |-> "none", reset |-> FALSE]

NewCall == [pc |-> "await", attach |-> "none", target |-> 0, raced |-> FALSE,
            reentrant |-> FALSE]

Idle == [op |-> "none", result |-> Null, error |-> NoError,
         active |-> FALSE, released |-> {}, call |-> 0, listed |-> "", attaches |-> <<>>]

\* Whether a startScanning made now finds the session active or an earlier
\* startScanning still awaiting.
Awaiting == \E c \in 1..Len(calls) : calls[c].pc = "await"

\* The part of the state stopScanning reads and writes.
Session ==
    [isScanning |-> isScanning, codeReader |-> codeReader, stream |-> stream,
     srcObject |-> srcObject, readers |-> readers, quagga |-> quagga, live |-> live]

\* The promise of scanImageFile before the call: nothing read, nothing
\* decoded, neither resolve nor reject called.
NoImageScan == [pc |-> "idle", code |-> Null, stage |-> "none", settles |-> 0,
                resolved |-> Null, rejected |-> ""]

\* No text has been handed to the codec.
NoCodecCall == Codec(<<>>, 0)

\* No BookAPI method is running.
NoApiCall == [op |-> "none", pc |-> "returned"]

\* The application before it is constructed.
NoApp == [pc |-> "none"]

\* The fields and engines of a scanner after construction.
InitSession ==
    /\ variant \in {"zxing", "quagga"}
    /\ isScanning = FALSE
    /\ codeReader = 0
    /\ stream = 0
    /\ onScanSuccess = FALSE
    /\ onScanError = FALSE
    /\ srcObject = 0
    /\ calls = <<>>
    /\ readers = [r \in CallIds |-> NewReader]
    /\ quagga = [initialized |-> FALSE, running |-> FALSE, streamRef |-> 0, handlers |-> {}]
    /\ live = {}
    /\ stoppedUpTo = 0
    /\ stale = {}
    /\ last = Idle
    /\ delivered = <<>>
    /\ image = NoImageScan

Init ==
    /\ InitSession
    /\ codec = NoCodecCall
    /\ api = NoApiCall
    /\ app = NoApp

\* The application assigns the two callback fields of the scanner.
setCallbacks(s, e) ==
    /\ <<s, e>> # <<onScanSuccess, onScanError>>
    /\ onScanSuccess' = s
    /\ onScanError' = e
    /\ last' = Idle
    /\ delivered' = <<>>
    /\ UNCHANGED <<variant, isScanning, codeReader, stream, srcObject, calls,
                   readers, quagga, live, stoppedUpTo, stale,
                   image, codec, api, app>>

(***************************************************************************)
(* ZXing variant.                                                          *)
(***************************************************************************)
\* Mutant of ZXing_startScanning: the active flag is not set before the await.
ZXing_startScanning_flagNotSet ==
    /\ variant = "zxing"
    /\ Len(calls) < MaxStarts
    /\ LET c == Len(calls) + 1 IN
        /\ codeReader' = c
        /\ readers' = [readers EXCEPT ![c] = [phase |-> "new", reset |-> FALSE]]
        /\ calls' = Append(calls, [NewCall EXCEPT !.reentrant = isScanning \/ Awaiting])
        /\ last' = Idle
    /\ delivered' = <<>>
    /\ UNCHANGED <<variant, isScanning, stream, onScanSuccess, onScanError,
                   srcObject, quagga, live, stoppedUpTo, stale,
                   image, codec, api, app>>

\* startScanning up to its first await: the reader is created and stored, the
\* session is marked active, and listVideoInputDevices() is awaited.
ZXing_startScanning ==
    /\ variant = "zxing"
    /\ Len(calls) < MaxStarts
    /\ LET c == Len(calls) + 1 IN
        /\ codeReader' = c
        /\ readers' = [readers EXCEPT ![c] = [phase |-> "new", reset |-> FALSE]]
        /\ isScanning' = TRUE
        /\ calls' = Append(calls, [NewCall EXCEPT !.reentrant = isScanning \/ Awaiting])
        /\ last' = Idle
    /\ delivered' = <<>>
    /\ UNCHANGED <<variant, stream, onScanSuccess, onScanError, srcObject,
                   quagga, live, stoppedUpTo, stale,
                   image, codec, api, app>>

\* this.codeReader.decodeFromVideoDevice(id, videoElement, callback): the engine
\* begins to open the camera; the promise it returns is not awaited.
decodeFromVideoDevice(rdrs, r) ==
    [rdrs EXCEPT ![r].phase = IF @ \in {"new", "failed"} THEN "opening" ELSE @]

\* Mutant of ZXing_attach: the fallback call is made after the first call too.
ZXing_attach_both(outcome) ==
    IF outcome = "devices" THEN <<"device", "default">> ELSE <<"default">>

\* The decodeFromVideoDevice calls one start makes on a reader it holds: with
\* the first listed device inside the try, or with undefined in
\* catch (enumerationError).  The call is asynchronous and does not throw.
ZXing_attach(outcome) ==
    IF outcome = "devices" THEN <<"device">> ELSE <<"default">>

\* The continuation of startScanning after listVideoInputDevices() settles with
\* a list of devices ("devices"), an empty list ("empty") or a rejection ("failed").
ZXing_resume(c, outcome) ==
    /\ variant = "zxing"
    /\ c \in 1..Len(calls)
    /\ calls[c].pc = "await"
    /\ IF codeReader # 0
       THEN \* the first or the fallback decodeFromVideoDevice call goes through
            /\ readers' = decodeFromVideoDevice(readers, codeReader)
            /\ calls' = [calls EXCEPT ![c].pc = "resolved",
                                      ![c].attach = IF outcome = "devices" THEN "device" ELSE "default",
                                      ![c].target = codeReader]
            /\ last' = [Idle EXCEPT !.op = "resumed", !.call = c, !.listed = outcome,
                                    !.attaches = ZXing_attach(outcome)]
            /\ UNCHANGED isScanning
       ELSE \* this.codeReader is null: TypeError in the try and again in its catch
            /\ isScanning' = FALSE
            /\ calls' = [calls EXCEPT ![c].pc = "rejected"]
            /\ last' = [Idle EXCEPT !.op = "resumed", !.call = c, !.listed = outcome]
            /\ UNCHANGED readers
    /\ delivered' = <<>>
    /\ UNCHANGED <<variant, codeReader, stream, onScanSuccess, onScanError,
                   srcObject, quagga, live, stoppedUpTo, stale,
                   image, codec, api, app>>

\* The engine opened the camera: the stream is attached to the video target and
\* continuous decoding begins.
ZXing_opened(r) ==
    /\ variant = "zxing"
    /\ readers[r].phase = "opening"
    /\ ~readers[r].reset
    /\ readers' = [readers EXCEPT ![r].phase = "decoding"]
    /\ live' = live \cup {r}
    /\ srcObject' = r
    /\ last' = Idle
    /\ delivered' = <<>>
    /\ UNCHANGED <<variant, isScanning, codeReader, stream, onScanSuccess,
                   onScanError, calls, quagga, stoppedUpTo, stale,
                   image, codec, api, app>>

\* The engine could not open the camera (no device, permission denied): the
\* promise of decodeFromVideoDevice rejects, and nothing awaits it.
ZXing_openFailed(r) ==
    /\ variant = "zxing"
    /\ readers[r].phase = "opening"
    /\ ~readers[r].reset
    /\ readers' = [readers EXCEPT ![r].phase = "failed"]
    /\ last' = Idle
    /\ delivered' = <<>>
    /\ UNCHANGED <<variant, isScanning, codeReader, stream, onScanSuccess,
                   onScanError, srcObject, calls, quagga, live, stoppedUpTo, stale,
                   image, codec, api, app>>

\* The callback invocations d, marked with the reader or detection handler whose
\* decode callback made them.
DeliveredBy(by, d) == [i \in DOMAIN d |-> [by |-> by, call |-> d[i]]]

\* Mutant of handleScanResult: a text that extracts to no identifier is
\* reported through onScanError.
handleScanResult_reportsInvalid(result, error) ==
    (IF result # Null /\ isScanning
     THEN LET isbn == extractISBN(result)
          IN  IF isbn # Null /\ onScanSuccess
              THEN <<[cb |-> "onScanSuccess", isbn |-> isbn, error |-> NoError]>>
              ELSE IF isbn = Null /\ onScanError
              THEN <<[cb |-> "onScanError", isbn |-> Null, error |-> NoError]>>
              ELSE <<>>
     ELSE <<>>)
    \o
    (IF error.present /\ onScanError
     THEN IF error.name = "" \/ error.name # "NotFoundException"
          THEN <<[cb |-> "onScanError", isbn |-> Null, error |-> error]>>
          ELSE <<>>
     ELSE <<>>)

\* Mutant of handleScanResult: the NotFoundException filter is missing.
handleScanResult_noFilter(result, error) ==
    (IF result # Null /\ isScanning
     THEN LET isbn == extractISBN(result)
          IN  IF isbn # Null /\ onScanSuccess
              THEN <<[cb |-> "onScanSuccess", isbn |-> isbn, error |-> NoError]>>
              ELSE <<>>
     ELSE <<>>)
    \o
    (IF error.present /\ onScanError
     THEN <<[cb |-> "onScanError", isbn |-> Null, error |-> error]>>
     ELSE <<>>)

\* handleScanResult(result, error): the callbacks it invokes, in order.
handleScanResult(result, error) ==
    (IF result # Null /\ isScanning
     THEN LET isbn == extractISBN(result)
          IN  IF isbn # Null /\ onScanSuccess
              THEN <<[cb |-> "onScanSuccess", isbn |-> isbn, error |-> NoError]>>
              ELSE <<>>
     ELSE <<>>)
    \o
    (IF error.present /\ onScanError
     THEN IF error.name = "" \/ error.name # "NotFoundException"
          THEN <<[cb |-> "onScanError", isbn |-> Null, error |-> error]>>
          ELSE <<>>
     ELSE <<>>)

\* Mutant of ZXing_decoded: an engine error ends the session's active state.
ZXing_decoded_errorStops(r, result, error) ==
    /\ variant = "zxing"
    /\ readers[r].phase = "decoding"
    /\ delivered' = DeliveredBy(r, handleScanResult(result, error))
    /\ last' = [Idle EXCEPT !.op = "decoded", !.result = result,
                            !.error = error, !.active = isScanning]
    /\ isScanning' = (isScanning /\ ~error.present)
    /\ UNCHANGED <<variant, codeReader, stream, onScanSuccess,
                   onScanError, srcObject, calls, readers, quagga, live, stoppedUpTo, stale,
                   image, codec, api, app>>

\* The continuous-decode callback of reader r fires.  A reader that was reset
\* while decoding may still deliver a callback that was in flight.
ZXing_decoded(r, result, error) ==
    /\ variant = "zxing"
    /\ readers[r].phase = "decoding"
    /\ delivered' = DeliveredBy(r, handleScanResult(result, error))
    /\ last' = [Idle EXCEPT !.op = "decoded", !.result = result,
                            !.error = error, !.active = isScanning]
    /\ UNCHANGED <<variant, isScanning, codeReader, stream, onScanSuccess,
                   onScanError, srcObject, calls, readers, quagga, live, stoppedUpTo, stale,
                   image, codec, api, app>>

\* codeReader.reset(): the engine stops decoding, stops the tracks of the
\* stream it opened and detaches it from the video target.
ZXing_reset(s, r) ==
    [s EXCEPT !.readers = [@ EXCEPT ![r].reset = TRUE],
              !.live = @ \ {r},
              !.srcObject = IF @ = r THEN 0 ELSE @]

\* Mutant of ZXing_stopScanning: the reader is reset but this.codeReader is
\* not set to null.
ZXing_stopScanning_keepsReader(s) ==
    LET s1 == [s EXCEPT !.isScanning = FALSE]
        s2 == IF s1.codeReader # 0 THEN ZXing_reset(s1, s1.codeReader) ELSE s1
        s3 == IF s2.srcObject # 0
              THEN [s2 EXCEPT !.live = @ \ {s2.srcObject}, !.srcObject = 0]
              ELSE s2
    IN  [st |-> s3,
         released |-> (IF s1.codeReader # 0 THEN {"decoder"} ELSE {})
                        \cup (IF s2.srcObject # 0 THEN {"tracks"} ELSE {}),
         threw |-> FALSE]

\* stopScanning, as a function of the session: the session after it, what it
\* released, and whether it threw.
ZXing_stopScanning(s) ==
    LET s1 == [s EXCEPT !.isScanning = FALSE]
        s2 == IF s1.codeReader # 0
              THEN [ZXing_reset(s1, s1.codeReader) EXCEPT !.codeReader = 0]
              ELSE s1
        s3 == IF s2.srcObject # 0
              THEN [s2 EXCEPT !.live = @ \ {s2.srcObject}, !.srcObject = 0]
              ELSE s2
    IN  [st |-> s3,
         released |-> (IF s1.codeReader # 0 THEN {"decoder"} ELSE {})
                        \cup (IF s2.srcObject # 0 THEN {"tracks"} ELSE {}),
         threw |-> FALSE]

(***************************************************************************)
(* QuaggaJS variant.                                                       *)
(***************************************************************************)
\* startScanning up to its first await: the session is marked active and
\* Quagga.init(config, callback) is awaited.
Quagga_startScanning ==
    /\ variant = "quagga"
    /\ Len(calls) < MaxStarts
    /\ isScanning' = TRUE
    /\ calls' = Append(calls, [NewCall EXCEPT !.reentrant = isScanning \/ Awaiting])
    /\ last' = Idle
    /\ delivered' = <<>>
    /\ UNCHANGED <<variant, codeReader, stream, onScanSuccess, onScanError,
                   srcObject, readers, quagga, live, stoppedUpTo, stale,
                   image, codec, api, app>>

\* The continuation of startScanning after the Quagga.init callback: with no
\* error the engine holds the camera stream, the detection handler is
\* registered and Quagga.start() runs; with an error the catch block runs.
Quagga_resume(c, ok) ==
    /\ variant = "quagga"
    /\ c \in 1..Len(calls)
    /\ calls[c].pc = "await"
    /\ IF ok
       THEN /\ quagga' = [initialized |-> TRUE, running |-> TRUE, streamRef |-> c,
                          handlers |-> quagga.handlers \cup {c}]
            /\ live' = live \cup {c}
            /\ srcObject' = c
            /\ calls' = [calls EXCEPT ![c].pc = "resolved", ![c].attach = "engine"]
            /\ UNCHANGED isScanning
       ELSE /\ isScanning' = FALSE
            /\ calls' = [calls EXCEPT ![c].pc = "rejected"]
            /\ UNCHANGED <<quagga, live, srcObject>>
    /\ last' = Idle
    /\ delivered' = <<>>
    /\ UNCHANGED <<variant, codeReader, stream, onScanSuccess, onScanError,
                   readers, stoppedUpTo, stale,
                   image, codec, api, app>>

\* One handler registered with Quagga.onDetected, run on a detection whose
\* codeResult.code is result (Null: no codeResult).
Quagga_onDetected(result) ==
    IF isScanning /\ result # Null
    THEN LET isbn == extractISBN(result)
         IN  IF isbn # Null /\ onScanSuccess
             THEN <<[cb |-> "onScanSuccess", isbn |-> isbn, error |-> NoError]>>
             ELSE <<>>
    ELSE <<>>

RECURSIVE Quagga_dispatch(_, _)
\* Quagga publishes one detection to every handler registered so far, in the
\* order of registration.
Quagga_dispatch(hs, result) ==
    IF hs = {} THEN <<>>
    ELSE LET h == CHOOSE x \in hs : \A y \in hs : x <= y
         IN  DeliveredBy(h, Quagga_onDetected(result))
               \o Quagga_dispatch(hs \ {h}, result)

\* The running engine detects a barcode in a frame.
Quagga_detected(result) ==
    /\ variant = "quagga"
    /\ quagga.running
    /\ delivered' = Quagga_dispatch(quagga.handlers, result)
    /\ last' = [Idle EXCEPT !.op = "decoded", !.result = result, !.active = isScanning]
    /\ UNCHANGED <<variant, isScanning, codeReader, stream, onScanSuccess,
                   onScanError, srcObject, calls, readers, quagga, live, stoppedUpTo, stale,
                   image, codec, api, app>>

\* Quagga.stop(): throws on an engine that was never initialised; otherwise the
\* engine stops locating and releases the camera stream it holds.
Quagga_stop(s) ==
    IF ~s.quagga.initialized
    THEN [st |-> s, threw |-> TRUE]
    ELSE [st |-> [s EXCEPT !.quagga = [@ EXCEPT !.running = FALSE, !.streamRef = 0],
                           !.live = @ \ {s.quagga.streamRef}],
          threw |-> FALSE]

\* stopScanning, as a function of the session: the session after it, what it
\* released, and whether it threw.
Quagga_stopScanning(s) ==
    LET s1 == [s EXCEPT !.isScanning = FALSE]
        s2 == Quagga_stop(s1).st      \* try { Quagga.stop() } catch { warn }
        s3 == IF s2.srcObject # 0 THEN [s2 EXCEPT !.srcObject = 0] ELSE s2
    IN  [st |-> s3,
         released |-> (IF s1.quagga.running \/ s1.quagga.streamRef # 0 THEN {"decoder"} ELSE {})
                        \cup (IF s2.srcObject # 0 THEN {"video"} ELSE {}),
         threw |-> FALSE]

(***************************************************************************)
(* stopScanning on either variant.                                         *)
(***************************************************************************)
stopScanning(s) ==
    IF variant = "zxing" THEN ZXing_stopScanning(s) ELSE Quagga_stopScanning(s)

\* The readers on which decodeFromVideoDevice has been called, and the
\* handlers registered with Quagga.onDetected.
Attached ==
    {r \in CallIds : readers[r].phase \in {"opening", "decoding", "failed"}}
        \cup quagga.handlers

\* stopScanning() called on the scanner.
StopSession ==
    LET out == stopScanning(Session) IN
    /\ isScanning' = out.st.isScanning
    /\ codeReader' = out.st.codeReader
    /\ stream' = out.st.stream
    /\ srcObject' = out.st.srcObject
    /\ readers' = out.st.readers
    /\ quagga' = out.st.quagga
    /\ live' = out.st.live
    /\ calls' = [c \in DOMAIN calls |->
                    IF calls[c].pc = "await" THEN [calls[c] EXCEPT !.raced = TRUE] ELSE calls[c]]
    /\ stoppedUpTo' = Len(calls)
    /\ stale' = stale \cup Attached
    /\ last' = [Idle EXCEPT !.op = "stop", !.released = out.released]
    /\ delivered' = <<>>
    /\ UNCHANGED <<variant, onScanSuccess, onScanError,
                   image, codec, api>>

Stop == StopSession /\ UNCHANGED app

Next ==
    \/ \E s, e \in BOOLEAN : setCallbacks(s, e)
    \/ ZXing_startScanning
    \/ \E c \in CallIds, outcome \in {"devices", "empty", "failed"} : ZXing_resume(c, outcome)
    \/ \E r \in CallIds : ZXing_opened(r)
    \/ \E r \in CallIds : ZXing_openFailed(r)
    \/ \E r \in CallIds, ev \in DecodeEvents : ZXing_decoded(r, ev[1], ev[2])
    \/ Quagga_startScanning
    \/ \E c \in CallIds, ok \in BOOLEAN : Quagga_resume(c, ok)
    \/ \E result \in Results : Quagga_detected(result)
    \/ Stop

Spec == Init /\ [][Next]_vars

(***************************************************************************)
(* scanImageFile: file read, image load, single-shot decode, extraction.   *)
(* The rejection messages are written in English here:                     *)
(*   FileReadFailed   'ファイルの読み込みに失敗しました'                     *)
(*   ImageLoadFailed  '画像の読み込みに失敗しました'                         *)
(*   DecodeFailed     '画像からバーコードを読み取れませんでした'             *)
(*   NoValidISBN      '有効なISBNバーコードが見つかりませんでした'           *)
(***************************************************************************)
FileReadFailed == "The file could not be read"

ImageLoadFailed == "The image could not be loaded"

DecodeFailed == "No barcode could be read from the image"

NoValidISBN == "No valid ISBN barcode was found"

\* What the canvas calls of img.onload throw when they throw.
ProcessErrors == {"IndexSizeError"}

\* "1234567890": ISBN-10 shape, check character wrong
TextBadCheck10 == <<"1", "2", "3", "4", "5", "6", "7", "8", "9", "0">>

\* The texts a single-shot decode of an image returns.
ImageTexts == DecodedTexts \cup {TextBadCheck10}

\* resolve(value) on a promise: the first settlement wins.
resolve(p, value) ==
    [p EXCEPT !.pc = "done", !.settles = @ + 1,
              !.resolved = IF p.settles = 0 THEN value ELSE @]

\* reject(new Error(message)) on a promise: the first settlement wins.
reject(p, message) ==
    [p EXCEPT !.pc = "done", !.settles = @ + 1,
              !.rejected = IF p.settles = 0 THEN message ELSE @]

\* Mutant of ImageFrame: an image step ends the live session's active state.
ImageFrame_deactivates ==
    /\ last' = Idle
    /\ delivered' = <<>>
    /\ isScanning' = FALSE
    /\ UNCHANGED <<variant, codeReader, stream, onScanSuccess,
                   onScanError, srcObject, calls, readers, quagga, live,
                   stoppedUpTo, stale, codec, api, app>>

\* What an image step leaves alone: every field of the scanner and the
\* engines of the live session; it invokes no callback.
ImageFrame ==
    /\ last' = Idle
    /\ delivered' = <<>>
    /\ UNCHANGED <<variant, isScanning, codeReader, stream, onScanSuccess,
                   onScanError, srcObject, calls, readers, quagga, live,
                   stoppedUpTo, stale, codec, api, app>>

\* scanImageFile(file): new Promise, reader.readAsDataURL(file).
scanImageFile ==
    /\ image.pc \in {"idle", "done"}
    /\ image' = [NoImageScan EXCEPT !.pc = "reading"]
    /\ ImageFrame

\* reader.onerror
FileReader_onerror ==
    /\ image.pc = "reading"
    /\ image' = reject([image EXCEPT !.stage = "file"], FileReadFailed)
    /\ ImageFrame

\* reader.onload: img.src = e.target.result
FileReader_onload ==
    /\ image.pc = "reading"
    /\ image' = [image EXCEPT !.pc = "loading"]
    /\ ImageFrame

\* img.onerror
Image_onerror ==
    /\ image.pc = "loading"
    /\ image' = reject([image EXCEPT !.stage = "image"], ImageLoadFailed)
    /\ ImageFrame

\* img.onload up to the single-shot decode call.  In the ZXing class the
\* canvas calls run inside try { } catch (processError) { reject(processError) }.
Image_onload(thrown) ==
    /\ image.pc = "loading"
    /\ thrown # "" => variant = "zxing"
    /\ image' = IF thrown # ""
                THEN reject([image EXCEPT !.stage = "process"], thrown)
                ELSE [image EXCEPT !.pc = "decoding"]
    /\ ImageFrame

\* Mutant of scanImageFile_decoded: a text without an identifier is reported
\* with the message of a failed decode.
scanImageFile_decoded_asDecodeFailure(p, code) ==
    LET isbn == extractISBN(code)
        q    == [p EXCEPT !.code = code]
    IN  IF isbn # Null
        THEN resolve([q EXCEPT !.stage = "ok"], isbn)
        ELSE reject([q EXCEPT !.stage = "identifier"], DecodeFailed)

\* The single-shot decode returned the text code:
\* const isbn = this.extractISBN(code); if (isbn) resolve(isbn) else reject(...)
scanImageFile_decoded(p, code) ==
    LET isbn == extractISBN(code)
        q    == [p EXCEPT !.code = code]
    IN  IF isbn # Null
        THEN resolve([q EXCEPT !.stage = "ok"], isbn)
        ELSE reject([q EXCEPT !.stage = "identifier"], NoValidISBN)

\* The single-shot decode found no symbol: decodeFromImageElement rejected
\* (catch (decodeError)), or Quagga.decodeSingle called back without a codeResult.
scanImageFile_notDecoded(p) ==
    reject([p EXCEPT !.stage = "decode"], DecodeFailed)

\* await codeReader.decodeFromImageElement(img) on a reader made for this image,
\* or the callback of Quagga.decodeSingle.
Image_decoded(result) ==
    /\ image.pc = "decoding"
    /\ image' = IF result # Null
                THEN scanImageFile_decoded(image, result)
                ELSE scanImageFile_notDecoded(image)
    /\ ImageFrame

ImageStep ==
    \/ scanImageFile
    \/ FileReader_onerror
    \/ FileReader_onload
    \/ Image_onerror
    \/ \E thrown \in ProcessErrors \cup {""} : Image_onload(thrown)
    \/ \E result \in ImageTexts \cup {Null} : Image_decoded(result)

\* An image scan next to a scan session that is set up, started and stopped.
NextImage ==
    \/ \E s, e \in BOOLEAN : setCallbacks(s, e)
    \/ ZXing_startScanning
    \/ \E c \in CallIds, outcome \in {"devices", "empty", "failed"} : ZXing_resume(c, outcome)
    \/ \E r \in CallIds : ZXing_opened(r)
    \/ Quagga_startScanning
    \/ \E c \in CallIds, ok \in BOOLEAN : Quagga_resume(c, ok)
    \/ Stop
    \/ ImageStep

SpecImage == Init /\ [][NextImage]_vars

(***************************************************************************)
(* The identifier codec applied to texts.  The texts are those of the unit *)
(* tests and the texts at most MaxEdits character edits away from them.    *)
(***************************************************************************)
\* "9784061313361"
TextValid13 == <<"9", "7", "8", "4", "0", "6", "1", "3", "1", "3", "3", "6", "1">>

\* "9784123456789"
TextPlain13 == <<"9", "7", "8", "4", "1", "2", "3", "4", "5", "6", "7", "8", "9">>

\* "1234567890123"
TextEAN13 == <<"1", "2", "3", "4", "5", "6", "7", "8", "9", "0", "1", "2", "3">>

\* "978406131336"
TextShort13 == <<"9", "7", "8", "4", "0", "6", "1", "3", "1", "3", "3", "6">>

\* "4061313363"
TextValid10 == <<"4", "0", "6", "1", "3", "1", "3", "3", "6", "3">>

\* "123456789X"
TextValid10X == <<"1", "2", "3", "4", "5", "6", "7", "8", "9", "X">>

\* "123456789"
TextShort10 == <<"1", "2", "3", "4", "5", "6", "7", "8", "9">>

\* "abcdefghij"
TextLetters == <<"a", "b", "c", "d", "e", "f", "g", "h", "i", "j">>

CodecTexts ==
    {TextValid13, TextPlain13, TextISBN13, TextEAN13, TextShort13, TextOther,
     TextValid10, TextValid10X, TextISBN10, TextBadCheck10, TextShort10,
     TextLetters, <<>>}

\* The characters an edit writes: the digits, the check character X, a
\* letter, a hyphen and a space.
Alphabet == Digits \cup {"X", "a", "-", " "}

\* A codec step leaves the scanner, its engines and the image scan alone.
CodecFrame ==
    UNCHANGED <<variant, isScanning, codeReader, stream, onScanSuccess,
                onScanError, srcObject, calls, readers, quagga, live,
                stoppedUpTo, stale, last, delivered, image, api, app>>

InitCodec ==
    /\ InitSession
    /\ variant = "zxing"
    /\ codec \in {Codec(text, 0) : text \in CodecTexts}
    /\ api = NoApiCall
    /\ app = NoApp

\* The codec is applied to the last text with one character replaced.
Substitute(pos, ch) ==
    /\ codec.edits < MaxEdits
    /\ pos \in 1..Len(codec.text)
    /\ ch # codec.text[pos]
    /\ codec' = Codec([codec.text EXCEPT ![pos] = ch], codec.edits + 1)
    /\ CodecFrame

\* The codec is applied to the last text with one character inserted.
Insert(pos, ch) ==
    /\ codec.edits < MaxEdits
    /\ pos \in 1..(Len(codec.text) + 1)
    /\ codec' = Codec(SubSeq(codec.text, 1, pos - 1) \o <<ch>>
                        \o SubSeq(codec.text, pos, Len(codec.text)),
                      codec.edits + 1)
    /\ CodecFrame

\* The codec is applied to the last text with one character removed.
Delete(pos) ==
    /\ codec.edits < MaxEdits
    /\ pos \in 1..Len(codec.text)
    /\ codec' = Codec(SubSeq(codec.text, 1, pos - 1)
                        \o SubSeq(codec.text, pos + 1, Len(codec.text)),
                      codec.edits + 1)
    /\ CodecFrame

\* The longest text is a 13-digit identifier with four separators and one
\* character more for each edit.
Positions == 1..(18 + MaxEdits)

NextCodec ==
    \/ \E pos \in Positions, ch \in Alphabet : Substitute(pos, ch)
    \/ \E pos \in Positions, ch \in Alphabet : Insert(pos, ch)
    \/ \E pos \in Positions : Delete(pos)

SpecCodec == InitCodec /\ [][NextCodec]_vars

(***************************************************************************)
(* BookAPI: searchWithMultipleFormats, getBooksInfoBatch, getAmazonPrice.  *)
(* One method runs at a time; getBookInfo and fetch are the environment.   *)
(***************************************************************************)
\* "4-12-345678-9"
TextHyphen10 == <<"4", "-", "1", "2", "-", "3", "4", "5", "6", "7", "8", "-", "9">>

\* "invalid-isbn"
TextInvalid == <<"i", "n", "v", "a", "l", "i", "d", "-", "i", "s", "b", "n">>

\* "9784987654321"
TextSecond13 == <<"9", "7", "8", "4", "9", "8", "7", "6", "5", "4", "3", "2", "1">>

SearchInputs == {TextISBN13, TextPlain13, TextISBN10, TextHyphen10, TextInvalid}

BatchInputs ==
    {<<>>, <<TextPlain13>>, <<TextPlain13, TextSecond13>>, <<TextPlain13, TextPlain13>>}

\* delayMs: the test's 0 and the default 100.
Delays == {0, 100}

\* How one getBookInfo call ends: a book, null, or an exception.
LookupOutcomes == {"found", "miss", "throws"}

\* The book getBookInfo(isbn) resolves with, and null.
Book(isbn) == [found |-> TRUE, key |-> isbn]

NoBook == [found |-> FALSE, key |-> <<>>]

\* new Error(...).message of a failed getBookInfo
LookupFailed == "Book information could not be fetched"

ApiIdle == api.pc = "returned"

\* The BookAPI methods write nothing but their own locals.
ApiFrame ==
    UNCHANGED <<variant, isScanning, codeReader, stream, onScanSuccess,
                onScanError, srcObject, calls, readers, quagga, live,
                stoppedUpTo, stale, last, delivered, image, codec, app>>

RECURSIVE uniqueFormats(_)
\* [...new Set(formats)]: the first occurrence of every element, in order.
uniqueFormats(formats) ==
    IF formats = <<>> THEN <<>>
    ELSE LET init == uniqueFormats(SubSeq(formats, 1, Len(formats) - 1))
             elem == formats[Len(formats)]
         IN  IF \E i \in 1..Len(init) : init[i] = elem THEN init ELSE Append(init, elem)

\* Mutant of searchFormats: duplicates are not removed.
searchFormats_keepsDuplicates(isbn) ==
    <<isbn, normalizeISBN(isbn), SelectSeq(isbn, NotSeparator)>>

\* The formats searchWithMultipleFormats iterates over.
searchFormats(isbn) ==
    uniqueFormats(<<isbn, normalizeISBN(isbn), SelectSeq(isbn, NotSeparator)>>)

\* searchWithMultipleFormats(isbn) up to its first await.
searchWithMultipleFormats(isbn) ==
    /\ ApiIdle
    /\ api' = [op |-> "search", pc |-> "loop", isbn |-> isbn,
               formats |-> searchFormats(isbn), queried |-> <<>>,
               outcomes |-> <<>>, result |-> NoBook]
    /\ ApiFrame

\* await this.getBookInfo(format) settles for the next format; the loop
\* returns on a book, and the method returns null after the last format.
Search_lookup(outcome) ==
    /\ api.op = "search"
    /\ api.pc = "loop"
    /\ LET format == api.formats[Len(api.queried) + 1]
           a      == [api EXCEPT !.queried = Append(@, format),
                                 !.outcomes = Append(@, outcome)]
       IN  api' = IF outcome = "found"
                  THEN [a EXCEPT !.pc = "returned", !.result = Book(format)]
                  ELSE IF Len(a.queried) = Len(a.formats)
                  THEN [a EXCEPT !.pc = "returned"]
                  ELSE a
    /\ ApiFrame

\* Mutant of Batch_entry: an exception ends the batch without an entry.
Batch_entry_dropsFailures(isbn, outcome) ==
    IF outcome = "throws" THEN <<>>
    ELSE <<[isbn |-> isbn,
            bookInfo |-> IF outcome = "found" THEN Book(isbn) ELSE NoBook,
            error |-> ""]>>

\* What one iteration of getBooksInfoBatch pushes on results.
Batch_entry(isbn, outcome) ==
    IF outcome = "throws"
    THEN <<[isbn |-> isbn, bookInfo |-> NoBook, error |-> LookupFailed]>>
    ELSE <<[isbn |-> isbn,
            bookInfo |-> IF outcome = "found" THEN Book(isbn) ELSE NoBook,
            error |-> ""]>>

\* The loop of getBooksInfoBatch moves to its next ISBN or returns results.
Batch_advance(a) ==
    IF a.i = Len(a.isbns)
    THEN [a EXCEPT !.pc = "returned"]
    ELSE [a EXCEPT !.pc = "lookup", !.i = @ + 1]

\* getBooksInfoBatch(isbns, delayMs) up to its first await.
getBooksInfoBatch(isbns, delayMs) ==
    /\ ApiIdle
    /\ api' = [op |-> "batch", pc |-> IF isbns = <<>> THEN "returned" ELSE "lookup",
               isbns |-> isbns, delayMs |-> delayMs, i |-> 1,
               results |-> <<>>, outcomes |-> <<>>]
    /\ ApiFrame

\* await this.getBookInfo(isbn) settles inside the try of the loop body.
Batch_lookup(outcome) ==
    /\ api.op = "batch"
    /\ api.pc = "lookup"
    /\ LET isbn == api.isbns[api.i]
           a    == [api EXCEPT !.results = @ \o Batch_entry(isbn, outcome),
                               !.outcomes = Append(@, outcome)]
       IN  api' = IF a.delayMs > 0 THEN [a EXCEPT !.pc = "delay"] ELSE Batch_advance(a)
    /\ ApiFrame

\* await this.delay(delayMs) settles.
Batch_delayed ==
    /\ api.op = "batch"
    /\ api.pc = "delay"
    /\ api' = Batch_advance(api)
    /\ ApiFrame

\* What fetch does: a response with a status, or a rejection.
Responses == {"200", "404", "500", "network failure"}

\* What response.json() does: a body with a price, or a rejection.
Bodies == {"price", "unparsable"}

\* Mutant of getAmazonPrice_failed: the error of a non-ok status other than
\* 404 escapes the method.
getAmazonPrice_failed_rethrows(a, response) ==
    IF response = "404"
    THEN [a EXCEPT !.pc = "returned", !.settled = "resolved", !.value = "null"]
    ELSE IF response = "500"
    THEN [a EXCEPT !.pc = "returned", !.settled = "rejected", !.value = "error"]
    ELSE [a EXCEPT !.pc = "returned", !.settled = "resolved", !.value = "null"]

\* getAmazonPrice without a parsed body: return null on 404; every throw in
\* the try is caught and returns null.
getAmazonPrice_failed(a, response) ==
    [a EXCEPT !.pc = "returned", !.settled = "resolved", !.value = "null"]

\* getAmazonPrice(isbn) up to await fetch(...).
getAmazonPrice ==
    /\ ApiIdle
    /\ api' = [op |-> "price", pc |-> "fetch", response |-> "", body |-> "",
               settled |-> "pending", value |-> ""]
    /\ ApiFrame

\* await fetch(...) settles.
Price_fetched(response) ==
    /\ api.op = "price"
    /\ api.pc = "fetch"
    /\ LET a == [api EXCEPT !.response = response]
       IN  api' = IF response = "200" THEN [a EXCEPT !.pc = "json"]
                  ELSE getAmazonPrice_failed(a, response)
    /\ ApiFrame

\* await response.json() settles.
Price_parsed(body) ==
    /\ api.op = "price"
    /\ api.pc = "json"
    /\ LET a == [api EXCEPT !.body = body]
       IN  api' = IF body = "price"
                  THEN [a EXCEPT !.pc = "returned", !.settled = "resolved", !.value = "price"]
                  ELSE getAmazonPrice_failed(a, body)
    /\ ApiFrame

NextAPI ==
    \/ \E isbn \in SearchInputs : searchWithMultipleFormats(isbn)
    \/ \E outcome \in LookupOutcomes : Search_lookup(outcome)
    \/ \E isbns \in BatchInputs, delayMs \in Delays : getBooksInfoBatch(isbns, delayMs)
    \/ \E outcome \in LookupOutcomes : Batch_lookup(outcome)
    \/ Batch_delayed
    \/ getAmazonPrice
    \/ \E response \in Responses : Price_fetched(response)
    \/ \E body \in Bodies : Price_parsed(body)

SpecAPI == Init /\ [][NextAPI]_vars

\* Every await of getBooksInfoBatch settles.
SpecAPILive ==
    /\ SpecAPI
    /\ WF_vars(\E outcome \in LookupOutcomes : Batch_lookup(outcome))
    /\ WF_vars(Batch_delayed)

(***************************************************************************)
(* BookBarcodeApp: the start and stop buttons, the scan callbacks, image   *)
(* upload, manual input, and the lookups that add books to the list.       *)
(***************************************************************************)
\* The texts typed into the manual ISBN field.
ManualInputs == {TextISBN10, TextPlain13, TextISBN13, TextHyphen10, TextOther, <<>>}

RECURSIVE trim(_)
\* String.prototype.trim
trim(s) ==
    IF s = <<>> THEN s
    ELSE IF s[1] \in {" ", "\t", "\n"} THEN trim(Tail(s))
    ELSE IF s[Len(s)] \in {" ", "\t", "\n"} THEN trim(SubSeq(s, 1, Len(s) - 1))
    ELSE s

NotHyphen(c) == c # "-"

\* /^(97[89])?\d{9}[\dX]$/
MatchesManual(s) ==
    \/ MatchesISBN10(s)
    \/ /\ Len(s) = 13
       /\ s[1] = "9" /\ s[2] = "7" /\ s[3] \in {"8", "9"}
       /\ MatchesISBN10(SubSeq(s, 4, 13))

\* searchBookByISBN(isbn) up to await this.bookAPI.getBookInfo(isbn).
searchBookByISBN(a, isbn) ==
    [a EXCEPT !.lookups = Append(@, [isbn |-> isbn, pc |-> "info"])]

\* handleScanSuccess(isbn) up to its first await.
handleScanSuccess(a, isbn) ==
    IF \E i \in 1..Len(a.books) : a.books[i] = isbn
    THEN [a EXCEPT !.msg = "already added"]
    ELSE searchBookByISBN([a EXCEPT !.msg = "detected"], isbn)

RECURSIVE handleDelivered(_, _)
\* The scanner's callbacks run one after the other: onScanSuccess is
\* handleScanSuccess, onScanError is handleScanError, which only logs.
handleDelivered(a, ds) ==
    IF ds = <<>> THEN a
    ELSE handleDelivered(IF ds[1].call.cb = "onScanSuccess"
                         THEN handleScanSuccess(a, ds[1].call.isbn)
                         ELSE a,
                         Tail(ds))

\* The application after its constructor: an empty list, both callbacks of
\* the scanner assigned, the start button shown.
InitApp ==
    /\ variant \in {"zxing", "quagga"}
    /\ isScanning = FALSE
    /\ codeReader = 0
    /\ stream = 0
    /\ onScanSuccess = TRUE
    /\ onScanError = TRUE
    /\ srcObject = 0
    /\ calls = <<>>
    /\ readers = [r \in CallIds |-> NewReader]
    /\ quagga = [initialized |-> FALSE, running |-> FALSE, streamRef |-> 0, handlers |-> {}]
    /\ live = {}
    /\ stoppedUpTo = 0
    /\ stale = {}
    /\ last = Idle
    /\ delivered = <<>>
    /\ image = NoImageScan
    /\ codec = NoCodecCall
    /\ api = NoApiCall
    /\ app \in {[books |-> <<>>, lookups |-> <<>>, continued |-> {}, msg |-> "",
                 startBtn |-> TRUE, stopBtn |-> shown] : shown \in BOOLEAN}

\* No callback of the scanner and no continuation of a settled start is
\* waiting to run: the application's event handlers run to their first await
\* before the next event is dispatched.
AppQuiet ==
    /\ delivered = <<>>
    /\ \A c \in 1..Len(calls) : calls[c].pc # "await" => c \in app.continued

AppFrame ==
    UNCHANGED <<variant, isScanning, codeReader, stream, onScanSuccess,
                onScanError, srcObject, calls, readers, quagga, live,
                stoppedUpTo, stale, last, delivered, image, codec, api>>

\* A click on the start button: startScanning() up to
\* await this.scanner.startScanning().
App_startScanning ==
    /\ AppQuiet
    /\ app.startBtn
    /\ (ZXing_startScanning \/ Quagga_startScanning)

\* The rest of startScanning() once the scanner's start has settled: the
\* buttons are switched when it resolved, a message is shown when it rejected.
App_startSettled(c) ==
    /\ delivered = <<>>
    /\ c \in 1..Len(calls)
    /\ c \notin app.continued
    /\ calls[c].pc # "await"
    /\ app' = IF calls[c].pc = "resolved"
              THEN [app EXCEPT !.continued = @ \cup {c}, !.startBtn = FALSE,
                               !.stopBtn = TRUE, !.msg = "camera started"]
              ELSE [app EXCEPT !.continued = @ \cup {c}, !.msg = "camera failed"]
    /\ AppFrame

\* A click on the stop button: stopScanning().
App_stopScanning ==
    /\ AppQuiet
    /\ app.stopBtn
    /\ StopSession
    /\ app' = [app EXCEPT !.startBtn = TRUE, !.stopBtn = FALSE, !.msg = "stopped"]

\* The scanner's engines while the application waits for events.
App_scannerStep ==
    /\ AppQuiet
    /\ \/ \E c \in CallIds, outcome \in {"devices", "empty", "failed"} : ZXing_resume(c, outcome)
       \/ \E r \in CallIds : ZXing_opened(r)
       \/ \E c \in CallIds, ok \in BOOLEAN : Quagga_resume(c, ok)

\* A decode event with a text reaches the scanner.
App_decoded(result) ==
    /\ AppQuiet
    /\ \/ \E r \in CallIds : ZXing_decoded(r, result, NoError)
       \/ Quagga_detected(result)
    /\ Len(app.lookups) + Len(delivered') <= MaxLookups

\* The callbacks the scanner invoked run in the application.
App_callbacks ==
    /\ delivered # <<>>
    /\ app' = handleDelivered(app, delivered)
    /\ delivered' = <<>>
    /\ UNCHANGED <<variant, isScanning, codeReader, stream, onScanSuccess,
                   onScanError, srcObject, calls, readers, quagga, live,
                   stoppedUpTo, stale, last, image, codec, api>>

\* handleImageUpload(event) for an image file, up to the await inside
\* searchBookByISBN: scanImageFile has settled for the decoded text code.
App_handleImageUpload(code) ==
    /\ AppQuiet
    /\ Len(app.lookups) < MaxLookups
    /\ LET p == IF code = Null THEN scanImageFile_notDecoded(NoImageScan)
                ELSE scanImageFile_decoded(NoImageScan, code)
       IN  app' = IF p.resolved # Null
                  THEN searchBookByISBN([app EXCEPT !.msg = "detected"], p.resolved)
                  ELSE [app EXCEPT !.msg = p.rejected]
    /\ AppFrame

\* searchManualISBN() up to the await inside searchBookByISBN.
App_searchManualISBN(value) ==
    /\ AppQuiet
    /\ Len(app.lookups) < MaxLookups
    /\ LET isbn == SelectSeq(trim(value), NotHyphen)
       IN  app' = IF isbn = <<>> THEN [app EXCEPT !.msg = "enter an ISBN"]
                  ELSE IF ~MatchesManual(isbn) THEN [app EXCEPT !.msg = "wrong ISBN format"]
                  ELSE searchBookByISBN([app EXCEPT !.msg = ""], isbn)
    /\ AppFrame

\* await this.bookAPI.getBookInfo(isbn) settles in lookup k.
App_bookInfo(k, outcome) ==
    /\ AppQuiet
    /\ k \in 1..Len(app.lookups)
    /\ app.lookups[k].pc = "info"
    /\ app' = IF outcome = "found"
              THEN [app EXCEPT !.lookups[k].pc = "price"]
              ELSE [app EXCEPT !.lookups[k].pc = "done",
                               !.msg = IF outcome = "miss" THEN "not found" ELSE LookupFailed]
    /\ AppFrame

\* await this.bookAPI.getAmazonPrice(isbn) settles in lookup k, and
\* addBook(book) puts the book at the head of the list.
App_addBook(k) ==
    /\ AppQuiet
    /\ k \in 1..Len(app.lookups)
    /\ app.lookups[k].pc = "price"
    /\ app' = [app EXCEPT !.lookups[k].pc = "done",
                          !.books = <<app.lookups[k].isbn>> \o @,
                          !.msg = "added"]
    /\ AppFrame

NextApp ==
    \/ App_startScanning
    \/ \E c \in CallIds : App_startSettled(c)
    \/ App_stopScanning
    \/ App_scannerStep
    \/ \E result \in DecodedTexts : App_decoded(result)
    \/ App_callbacks
    \/ \E code \in ImageTexts \cup {Null} : App_handleImageUpload(code)
    \/ \E value \in ManualInputs : App_searchManualISBN(value)
    \/ \E k \in 1..MaxLookups, outcome \in LookupOutcomes : App_bookInfo(k, outcome)
    \/ \E k \in 1..MaxLookups : App_addBook(k)

SpecApp == InitApp /\ [][NextApp]_vars

(***************************************************************************)
(* Properties.                                                             *)
(***************************************************************************)
IsSuccessCall(d) == d.call.cb = "onScanSuccess"

IsErrorCall(d) == d.call.cb = "onScanError"

\* C1: in every reachable state, a session whose isScanning is false holds no
\* decoder handle (codeReader is null) and no media stream (stream is null).
C1_InactiveHoldsNoHandles ==
    ~isScanning => (codeReader = 0 /\ stream = 0)

\* A session that was started, created a reader, and was stopped.
C1_Witness ==
    /\ ~isScanning
    /\ \E r \in CallIds : readers[r].reset
    /\ \E c \in 1..Len(calls) : calls[c].pc = "rejected"

\* C2: once stopScanning has returned, no decode result delivered through a
\* callback or handler attached by a start made before that stop invokes
\* onScanSuccess, also after the session has been started again.
C2_NoStaleSuccess ==
    \A i \in 1..Len(delivered) :
        delivered[i].by \in stale => ~IsSuccessCall(delivered[i])

\* C3: once stopScanning has returned, a decode callback that fires with an
\* error while the session is inactive does not invoke onScanError.
C3_ErrorGatedOnActive ==
    (last.op = "decoded" /\ ~last.active) =>
        \A i \in 1..Len(delivered) :
            delivered[i].by \in stale => ~IsErrorCall(delivered[i])

\* C4: stopScanning never throws, on a never-started session included, and in
\* every reachable state a second stopScanning after a first one releases
\* nothing and leaves the session as the first one left it.
C4_StopIdempotent ==
    LET once  == stopScanning(Session)
        twice == stopScanning(once.st)
    IN  /\ ~once.threw
        /\ ~twice.threw
        /\ twice.st = once.st
        /\ twice.released = {}

\* stopScanning has just released a decoder, and stopping again releases nothing.
C4_Witness ==
    /\ last.op = "stop"
    /\ "decoder" \in last.released
    /\ stopScanning(Session).released = {}
    /\ stopScanning(Session).st = Session

\* C5: once stopScanning has been called after the last startScanning and
\* every pending start and camera opening has settled, every decoder created
\* has been reset, every stream's tracks are stopped, the video target has no
\* stream and both handles are cleared.
C5_StopReleasesEverything ==
    (/\ Len(calls) > 0
     /\ stoppedUpTo = Len(calls)
     /\ ~Awaiting
     /\ \A r \in CallIds : readers[r].phase = "opening" => readers[r].reset)
    => /\ ~isScanning
       /\ codeReader = 0
       /\ stream = 0
       /\ srcObject = 0
       /\ live = {}
       /\ ~quagga.running
       /\ \A r \in CallIds : readers[r].phase # "none" => readers[r].reset

\* C6: a startScanning made while the session is active, or while an earlier
\* start is still awaiting, is rejected and leaves the decoder handle, the
\* decoders and the video target's stream untouched.
C6_ReentrantStartRejected ==
    [][(Len(calls') > Len(calls) /\ (isScanning \/ Awaiting))
         => /\ calls'[Len(calls')].pc = "rejected"
            /\ codeReader' = codeReader
            /\ readers' = readers
            /\ quagga' = quagga
            /\ srcObject' = srcObject]_vars

\* C7: a startScanning whose await was overtaken by a stopScanning does not,
\* when it resumes, attach a decoder or begin continuous scanning.
C7_RacingStopHonoured ==
    \A c \in 1..Len(calls) :
        (calls[c].raced /\ calls[c].pc # "await") => calls[c].attach = "none"

\* C8: a startScanning whose decoder could not open the camera has rejected;
\* it has not resolved successfully.
C8_FailedStartRejects ==
    \A c \in 1..Len(calls) :
        (calls[c].target # 0 /\ readers[calls[c].target].phase = "failed")
            => calls[c].pc = "rejected"

\* C9: while the session is active and onScanSuccess is set, a decode event
\* whose text extracts to an identifier invokes onScanSuccess exactly once,
\* after any number of start/stop cycles in which no start was re-entrant or
\* overtaken by a stop.
C9_ExactlyOneSuccess ==
    (/\ last.op = "decoded"
     /\ \A c \in 1..Len(calls) : ~calls[c].reentrant /\ ~calls[c].raced
     /\ last.active
     /\ onScanSuccess
     /\ last.result # Null
     /\ extractISBN(last.result) # Null)
    => Len(SelectSeq(delivered, IsSuccessCall)) = 1

\* C10: a decode callback carrying NotFoundException never invokes
\* onScanError, and one carrying any other error while the session is active
\* and onScanError is set invokes onScanError exactly once, with that error.
C10_ErrorRouting ==
    last.op = "decoded" =>
        LET errs == SelectSeq(delivered, IsErrorCall) IN
        /\ (last.error.present /\ last.error.name = "NotFoundException")
              => Len(errs) = 0
        /\ (last.error.present /\ last.error.name # "NotFoundException"
              /\ last.active /\ onScanError)
              => (Len(errs) = 1 /\ errs[1].call.error = last.error)

\* An active session with onScanError set has just received an engine error
\* other than NotFoundException and passed it to onScanError.
C10_Witness ==
    /\ last.op = "decoded"
    /\ last.active
    /\ onScanError
    /\ last.error = [present |-> TRUE, name |-> "ChecksumException"]
    /\ Len(delivered) = 1
    /\ IsErrorCall(delivered[1])

\* C11: in the live-scan path, a decode result whose text does not extract to
\* an identifier invokes neither onScanSuccess nor onScanError.
C11_NonIdentifierIsSilent ==
    (last.op = "decoded" /\ last.result # Null /\ extractISBN(last.result) = Null)
        => delivered = <<>>

\* An active session with both callbacks set has just decoded a text with no
\* identifier in it, and no callback was invoked.
C11_Witness ==
    /\ last.op = "decoded"
    /\ last.active
    /\ onScanSuccess
    /\ onScanError
    /\ last.result = TextOther
    /\ extractISBN(last.result) = Null
    /\ delivered = <<>>

\* C12: a session object is reusable.  After start, stop, start, with every
\* start settled and none of them re-entrant or overtaken by a stop, the
\* session is active again with a decoder attached that the stop did not
\* touch, and a decode event invokes exactly the callbacks it invokes in a
\* first session: those of one run of the decode handler.
C12_RestartedSessionDeliversAsFirst ==
    (/\ Len(calls) = 2
     /\ stoppedUpTo = 1
     /\ \A c \in 1..2 : calls[c].pc = "resolved" /\ ~calls[c].reentrant /\ ~calls[c].raced
     /\ calls[2].attach # "none")
    => /\ isScanning
       /\ variant = "zxing" => (codeReader = 2 /\ ~readers[2].reset /\ 2 \notin stale)
       /\ variant = "quagga" => quagga.running
       /\ last.op = "decoded" =>
            [i \in DOMAIN delivered |-> delivered[i].call]
                = (IF variant = "zxing"
                   THEN handleScanResult(last.result, last.error)
                   ELSE Quagga_onDetected(last.result))

\* The message each failure stage of scanImageFile is claimed to reject with.
StageMessage(stage) ==
    CASE stage = "file"       -> FileReadFailed
      [] stage = "image"      -> ImageLoadFailed
      [] stage = "decode"     -> DecodeFailed
      [] stage = "identifier" -> NoValidISBN

FailureStages == {"file", "image", "decode", "identifier"}

\* C13: scanImageFile settles exactly once.  It resolves, with the extracted
\* identifier, exactly when the single-shot decode returned a text that
\* extracts; a failure in one of the four stages (file read, image load,
\* decode, extraction) rejects with a message that no other stage produces,
\* and any other rejection carries none of the four messages.
C13_SettlesOnceWithStageError ==
    /\ image.settles <= 1
    /\ (image.pc = "done") = (image.settles = 1)
    /\ image.pc = "done" =>
        /\ (image.resolved # Null) = (image.stage = "ok")
        /\ (image.resolved # Null) = (image.rejected = "")
        /\ image.stage = "ok" =>
             (extractISBN(image.code) # Null /\ image.resolved = extractISBN(image.code))
        /\ image.stage = "identifier" => extractISBN(image.code) = Null
        /\ \A s \in FailureStages :
             (image.rejected = StageMessage(s)) = (image.stage = s)

\* A decoded text without an identifier has rejected the promise, once, with
\* the message of the extraction stage.
C13_Witness ==
    /\ image.pc = "done"
    /\ image.stage = "identifier"
    /\ image.code = TextOther
    /\ image.rejected = NoValidISBN
    /\ image.settles = 1

\* C14: scanImageFile rejects with the no-valid-ISBN message whenever the
\* decoded text, hyphens and whitespace removed, passes neither validateISBN13
\* nor validateISBN10, as "1234567890" does not; it never resolves with an
\* identifier derived from such a text.
C14_InvalidISBNRejected ==
    (/\ image.pc = "done"
     /\ image.code # Null
     /\ ~validateISBN13(SelectSeq(image.code, NotSeparator))
     /\ ~validateISBN10(SelectSeq(image.code, NotSeparator)))
    => (image.rejected = NoValidISBN /\ image.resolved = Null)

C16_ConvertGivesValidISBN13 ==
    MatchesISBN10(codec.text) =>
        /\ Len(codec.isbn13) = 13
        /\ AllDigits(codec.isbn13)
        /\ SubSeq(codec.isbn13, 1, 3) = <<"9", "7", "8">>
        /\ SubSeq(codec.isbn13, 4, 12) = SubSeq(codec.text, 1, 9)
        /\ validateISBN13(codec.isbn13)

\* "123456789X" with its last digit replaced has been converted.
C16_Witness ==
    /\ codec.edits = 1
    /\ MatchesISBN10(codec.text)
    /\ SubSeq(codec.text, 1, 8) = SubSeq(TextValid10X, 1, 8)
    /\ codec.text[9] = "0"
    /\ codec.text[10] = "X"
    /\ codec.isbn13 # Null
    /\ validateISBN13(codec.isbn13)

\* C17: extractISBN is idempotent on its own output: for every text x for
\* which extractISBN(x) is not null, extractISBN(extractISBN(x)) = extractISBN(x).
C17_ExtractIdempotent ==
    codec.isbn # Null => extractISBN(codec.isbn) = codec.isbn

\* An edited text with separators in it was extracted to an identifier that
\* differs from the text, and extracting the identifier returns it unchanged.
C17_Witness ==
    /\ codec.edits = 1
    /\ \E i \in 1..Len(codec.text) : IsSeparator(codec.text[i])
    /\ codec.isbn # Null
    /\ codec.isbn # codec.text
    /\ extractISBN(codec.isbn) = codec.isbn

\* C18: for every text, extractISBN removes hyphens and whitespace and nothing
\* else, and returns the cleaned text when it is 13 digits beginning with 978
\* or 979 (its check digit right or wrong), convertISBN10to13 of the cleaned
\* text when it is 9 digits followed by a digit or X, and null otherwise.
C18_ExtractByShape ==
    LET cleaned == SelectSeq(codec.text, LAMBDA c : c \notin {"-", " ", "\t", "\n"})
        digits(s) == \A i \in 1..Len(s) : s[i] \in Digits
        bookland  == /\ Len(cleaned) = 13
                     /\ digits(cleaned)
                     /\ SubSeq(cleaned, 1, 2) = <<"9", "7">>
                     /\ cleaned[3] \in {"8", "9"}
        isbn10    == /\ Len(cleaned) = 10
                     /\ digits(SubSeq(cleaned, 1, 9))
                     /\ cleaned[10] \in Digits \cup {"X"}
    IN  codec.isbn = (IF bookland THEN cleaned
                      ELSE IF isbn10 THEN convertISBN10to13(cleaned)
                      ELSE Null)

\* "123456789X" with a separator inserted was cleaned and converted.
C18_Witness ==
    /\ codec.edits = 1
    /\ Len(codec.text) = 11
    /\ \E i \in 1..Len(codec.text) : IsSeparator(codec.text[i])
    /\ codec.text[11] = "X"
    /\ codec.isbn = convertISBN10to13(TextValid10X)

\* C19: checksum exactness under single substitution.  For every text that
\* validateISBN13 accepts and every position 0..12, replacing the digit there
\* by any other digit gives a text validateISBN13 rejects; for every text that
\* validateISBN10 accepts, replacing any one of its 10 characters by another
\* legal character (a digit, or X in the last position) gives a text
\* validateISBN10 rejects.
C19_SingleSubstitutionDetected ==
    /\ codec.valid13 =>
         \A pos \in 1..13 : \A d \in Digits \ {codec.text[pos]} :
             ~validateISBN13([codec.text EXCEPT ![pos] = d])
    /\ codec.valid10 =>
         \A pos \in 1..10 :
             \A ch \in (IF pos = 10 THEN Digits \cup {"X"} ELSE Digits) \ {codec.text[pos]} :
                 ~validateISBN10([codec.text EXCEPT ![pos] = ch])

\* An edit produced an ISBN-10 that validateISBN10 accepts and that ends in
\* X, and no digit in place of the X is accepted.
C19_Witness ==
    /\ codec.edits = 1
    /\ codec.valid10
    /\ codec.text[10] = "X"
    /\ \A d \in Digits : ~validateISBN10([codec.text EXCEPT ![10] = d])

\* C20: validateISBN10 returns true exactly for texts of 9 digits followed by
\* a digit or X whose expected check value (0 when the sum of digit i times
\* (10 - i), i = 0..8, is divisible by 11, else 11 minus that sum mod 11)
\* equals the last character, X standing for 10 only; a text ending in X is
\* rejected when the expected value is below 10, and so is every text of
\* another shape.
C20_Validate10Exact ==
    LET t        == codec.text
        val      == "0" :> 0 @@ "1" :> 1 @@ "2" :> 2 @@ "3" :> 3 @@ "4" :> 4
                      @@ "5" :> 5 @@ "6" :> 6 @@ "7" :> 7 @@ "8" :> 8 @@ "9" :> 9
        shape    == /\ Len(t) = 10
                    /\ \A i \in 1..9 : t[i] \in Digits
                    /\ t[10] \in Digits \cup {"X"}
        sum      == 10 * val[t[1]] + 9 * val[t[2]] + 8 * val[t[3]] + 7 * val[t[4]]
                      + 6 * val[t[5]] + 5 * val[t[6]] + 4 * val[t[7]]
                      + 3 * val[t[8]] + 2 * val[t[9]]
        expected == IF sum % 11 = 0 THEN 0 ELSE 11 - (sum % 11)
        given    == IF t[10] = "X" THEN 10 ELSE val[t[10]]
    IN  /\ codec.valid10 = (shape /\ expected = given)
        /\ (shape /\ t[10] = "X" /\ expected < 10) => ~codec.valid10

\* An edit changed a digit of "123456789X": the expected check value is no
\* longer 10 and the text, still ending in X, is rejected.
C20_Witness ==
    /\ codec.edits = 1
    /\ MatchesISBN10(codec.text)
    /\ codec.text[10] = "X"
    /\ codec.text # TextValid10X
    /\ SubSeq(codec.text, 2, 9) = SubSeq(TextValid10X, 2, 9)
    /\ ~codec.valid10

\* C21: validateISBN13 returns true exactly for texts of 13 digits whose last
\* digit equals (10 - (s mod 10)) mod 10, s being the sum over positions 0..11
\* of the digit times 1 at even and times 3 at odd positions; every text that
\* is not 13 digits is rejected; and for a 978 prefix the check digit it
\* requires is the one convertISBN10to13 computes for the same 12 digits.
C21_Validate13Exact ==
    LET t        == codec.text
        val      == "0" :> 0 @@ "1" :> 1 @@ "2" :> 2 @@ "3" :> 3 @@ "4" :> 4
                      @@ "5" :> 5 @@ "6" :> 6 @@ "7" :> 7 @@ "8" :> 8 @@ "9" :> 9
        shape    == Len(t) = 13 /\ \A i \in 1..13 : t[i] \in Digits
        s        == val[t[1]] + 3 * val[t[2]] + val[t[3]] + 3 * val[t[4]]
                      + val[t[5]] + 3 * val[t[6]] + val[t[7]] + 3 * val[t[8]]
                      + val[t[9]] + 3 * val[t[10]] + val[t[11]] + 3 * val[t[12]]
        expected == (10 - (s % 10)) % 10
    IN  /\ codec.valid13 = (shape /\ val[t[13]] = expected)
        /\ (shape /\ SubSeq(t, 1, 3) = <<"9", "7", "8">>) =>
              (codec.valid13 = (t = convertISBN10to13(SubSeq(t, 4, 13))))

\* An edit produced a 978 text that validateISBN13 accepts, and it is what
\* convertISBN10to13 builds from its digits 3..11.
C21_Witness ==
    /\ codec.edits = 1
    /\ codec.valid13
    /\ SubSeq(codec.text, 1, 3) = <<"9", "7", "8">>
    /\ codec.text # TextValid13
    /\ codec.text = convertISBN10to13(SubSeq(codec.text, 4, 13))

\* C22: searchWithMultipleFormats queries the distinct formats among the raw
\* input, its normalized form and its separator-stripped form, one at a time
\* in that order and each at most once; it returns the first book found
\* without querying later formats, treats a lookup that throws as a miss, and
\* returns null only after every distinct format has missed.
C22_SearchTriesFormatsInOrder ==
    api.op = "search" =>
        LET raw      == api.isbn
            stripped == SelectSeq(raw, LAMBDA c : c \notin {"-", " ", "\t", "\n"})
            norm     == normalizeISBN(raw)
            distinct == <<raw>> \o (IF norm # raw THEN <<norm>> ELSE <<>>)
                          \o (IF stripped # raw /\ stripped # norm THEN <<stripped>> ELSE <<>>)
            n        == Len(api.queried)
        IN  /\ n <= Len(distinct)
            /\ api.queried = SubSeq(distinct, 1, n)
            /\ \A i \in 1..(n - 1) : api.outcomes[i] # "found"
            /\ api.pc = "loop" => (n < Len(distinct) /\ \A i \in 1..n : api.outcomes[i] # "found")
            /\ (api.pc = "returned" /\ api.result.found) =>
                  (api.outcomes[n] = "found" /\ api.result = Book(distinct[n]))
            /\ (api.pc = "returned" /\ ~api.result.found) =>
                  (n = Len(distinct) /\ \A i \in 1..n : api.outcomes[i] # "found")

\* "4-12-345678-9" has three distinct formats: the first lookup threw, the
\* second missed, the third found the book and was returned.
C22_Witness ==
    /\ api.op = "search"
    /\ api.pc = "returned"
    /\ api.isbn = TextHyphen10
    /\ api.outcomes = <<"throws", "miss", "found">>
    /\ api.result = Book(SelectSeq(TextHyphen10, NotSeparator))

\* C23: getBooksInfoBatch always terminates, with a result list that has
\* exactly one entry per input ISBN in input order; a lookup that throws gives
\* an entry with bookInfo null and the error message and the remaining ISBNs
\* are still looked up; a lookup that succeeds gives an entry with error null.
C23_BatchOneEntryPerISBN ==
    /\ [](api.op = "batch" =>
            /\ Len(api.results) = Len(api.outcomes)
            /\ Len(api.results) <= Len(api.isbns)
            /\ \A k \in 1..Len(api.results) :
                 /\ api.results[k].isbn = api.isbns[k]
                 /\ api.outcomes[k] = "throws" =>
                      (api.results[k].bookInfo = NoBook /\ api.results[k].error = LookupFailed)
                 /\ api.outcomes[k] # "throws" => api.results[k].error = ""
                 /\ api.outcomes[k] = "found" => api.results[k].bookInfo = Book(api.isbns[k])
            /\ api.pc = "returned" => Len(api.results) = Len(api.isbns))
    /\ (api.op = "batch") ~> (api.op = "batch" /\ api.pc = "returned")

\* A batch of two ISBNs has returned: the first lookup threw, the second
\* found its book, and both have their entry.
C23_Witness ==
    /\ api.op = "batch"
    /\ api.pc = "returned"
    /\ api.delayMs > 0
    /\ api.isbns = <<TextPlain13, TextSecond13>>
    /\ api.outcomes = <<"throws", "found">>
    /\ Len(api.results) = 2
    /\ api.results[1].error = LookupFailed
    /\ api.results[2].bookInfo = Book(TextSecond13)

\* C24: getAmazonPrice never rejects.  For every backend outcome (success,
\* HTTP 404, another non-ok status, network failure, unparsable body) it
\* resolves: with the price on success and with null in every failure case.
C24_PriceNeverRejects ==
    api.op = "price" =>
        /\ api.settled # "rejected"
        /\ api.pc = "returned" =>
             /\ api.settled = "resolved"
             /\ (api.response = "200" /\ api.body = "price") => api.value = "price"
             /\ (api.response # "200" \/ api.body # "price") => api.value = "null"

\* The backend answered with a non-ok status other than 404 and the method
\* resolved with null.
C24_Witness ==
    /\ api.op = "price"
    /\ api.pc = "returned"
    /\ api.response = "500"
    /\ api.settled = "resolved"
    /\ api.value = "null"

\* C25: the application's book list never contains two entries with the same
\* ISBN, after any sequence and interleaving of live-scan detections, image
\* uploads and manual searches.
C25_NoDuplicateBooks ==
    \A i, j \in 1..Len(app.books) : app.books[i] = app.books[j] => i = j

\* C26: every ISBN under which a book is looked up and stored in the list is
\* the canonical form, 13 digits beginning with 978 or 979, whichever entry
\* path produced it (live scan, image upload, manual input).
C26_CanonicalKeys ==
    /\ \A k \in 1..Len(app.lookups) : MatchesISBN13(app.lookups[k].isbn)
    /\ \A i \in 1..Len(app.books) : MatchesISBN13(app.books[i])

\* C27: the application never invokes the scanner's start while the scanner
\* is active or while an earlier start is still awaiting acquisition, for any
\* sequence of clicks on the start and stop buttons.
C27_StartsSerialized ==
    [][Len(calls') > Len(calls) => (~isScanning /\ ~Awaiting)]_vars

C29_DecodeLeavesSession ==
    [][/\ last'.op = "decoded" =>
            /\ isScanning' = isScanning
            /\ codeReader' = codeReader
            /\ stream' = stream
            /\ onScanSuccess' = onScanSuccess
            /\ onScanError' = onScanError
       /\ (isScanning /\ ~isScanning') =>
            \/ last'.op = "stop"
            \/ \E c \in 1..Len(calls) : calls[c].pc = "await" /\ calls'[c].pc = "rejected"]_vars

\* The session is still active, with its decoder, after an engine error other
\* than NotFoundException was passed to onScanError.
C29_Witness ==
    /\ last.op = "decoded"
    /\ last.error = [present |-> TRUE, name |-> "ChecksumException"]
    /\ Len(delivered) = 1
    /\ isScanning
    /\ codeReader # 0
    /\ onScanSuccess
    /\ onScanError

\* C30: BookAPI.normalizeISBN and BarcodeScanner.extractISBN agree on every
\* text extractISBN accepts, and differ only on the texts it rejects, for
\* which normalizeISBN returns the text without hyphens and whitespace.
C30_NormalizeAgreesWithExtract ==
    /\ codec.isbn # Null => codec.normalized = codec.isbn
    /\ codec.isbn = Null =>
         codec.normalized = SelectSeq(codec.text, LAMBDA c : c \notin {"-", " ", "\t", "\n"})

\* A hyphen was inserted into an ISBN-10: both methods return the same
\* converted identifier.
C30_Witness ==
    /\ codec.edits = 1
    /\ Len(codec.text) = 11
    /\ \E i \in 1..11 : codec.text[i] = "-"
    /\ codec.isbn # Null
    /\ codec.isbn # SelectSeq(codec.text, NotSeparator)
    /\ codec.normalized = codec.isbn

====
